---- MODULE Spec2Model ----
(***************************************************************************)
(* webext-options-sync: the OptionsSync accessor (src/unnamed/part_003,    *)
(* lines 522-888), its migration runner, the install/update gate and the   *)
(* chrome.storage backend it talks to.                                     *)
(*                                                                         *)
(* An options object is a JavaScript object: a sequence of <<key, value>>  *)
(* pairs with distinct keys, in insertion order (the order JSON.stringify  *)
(* and Object.keys observe).  Values are primitives, written as strings.   *)
(***************************************************************************)
EXTENDS Naturals, Sequences, FiniteSets, TLC

\* Number of getAll / setAll / set calls the callers issue on the instance.
MaxCalls == 2

Callers == 1..MaxCalls

-----------------------------------------------------------------------------
(* JavaScript objects                                                      *)

\* Object.keys(o)
Keys(o) == {o[i][1] : i \in DOMAIN o}

\* key in o
Has(o, k) == k \in Keys(o)

\* o[k]; a missing property reads as undefined
Get(o, k) == IF Has(o, k) THEN (CHOOSE p \in {o[i] : i \in DOMAIN o} : p[1] = k)[2]
             ELSE "undefined"

\* o[k] = v: an existing property keeps its position, a new one goes last
Put(o, k, v) == IF Has(o, k)
                THEN [i \in DOMAIN o |-> IF o[i][1] = k THEN <<k, v>> ELSE o[i]]
                ELSE Append(o, <<k, v>>)

\* delete o[k]
Delete(o, k) == SelectSeq(o, LAMBDA p : p[1] # k)

\* {...a, ...b}
RECURSIVE Spread(_, _)
Spread(a, b) == IF b = <<>> THEN a
                ELSE Spread(Put(a, Head(b)[1], Head(b)[2]), Tail(b))

-----------------------------------------------------------------------------
(* Values held by chrome.storage under one key, and their text forms       *)

\* result[this.storageName] when nothing is stored
Undefined == [type |-> "undefined", fmt |-> "none", bag |-> <<>>]

\* a plain object stored by a version that did not compress (legacy)
PlainObject(o) == [type |-> "object", fmt |-> "none", bag |-> o]

\* JSON.stringify(o): the text lists the properties in insertion order
JSONstringify(o) == [type |-> "string", fmt |-> "json", bag |-> o]

\* lz-string's compressToEncodedURIComponent
compressToEncodedURIComponent(text) ==
    [type |-> "string", fmt |-> "lz", bag |-> text.bag]

\* null
Null == [type |-> "null", fmt |-> "none", bag |-> <<>>]

\* the stored string '': lz-string decompresses it to null
EmptyString == [type |-> "string", fmt |-> "empty", bag |-> <<>>]

\* a stored string that is not what compressToEncodedURIComponent produced
\* (cut short, say): lz-string makes a text of it that is not JSON
Garbled == [type |-> "string", fmt |-> "garbled", bag |-> <<>>]

\* lz-string's decompressFromEncodedURIComponent: string | null
decompressFromEncodedURIComponent(v) ==
    CASE v.fmt = "lz"    -> [type |-> "string", fmt |-> "json", bag |-> v.bag]
      [] v.fmt = "empty" -> Null
      [] OTHER           -> [type |-> "string", fmt |-> "text", bag |-> <<>>]

\* JSON.parse(text) throws a SyntaxError
JSONparseThrows(text) == text.type = "string" /\ text.fmt # "json"

\* JSON.parse(text), when it does not throw; null (the text 'null', which is
\* what the argument null is turned into) has no properties to spread
JSONparse(text) == text.bag

-----------------------------------------------------------------------------
(* Inputs: the setups, stored values and migration lists the instance is   *)
(* constructed with                                                        *)

\* The setups of the test suite: defaultSetup (what the constructor's
\* parameter defaults give) and simpleSetup
Setups ==
    { [storageName |-> "options", defaults |-> <<>>],
      [storageName |-> "settings",
       defaults |-> << <<"color", "red">>, <<"sound", "true">> >>] }

StorageNames == {"options", "settings"}

\* What chrome.storage holds under the instance's key before construction:
\* nothing, legacy plain objects, the compressed form an earlier run wrote,
\* or a string no run wrote
StoredSet ==
    { Undefined,
      PlainObject(<< <<"size", "30">> >>),
      PlainObject(<< <<"color", "red">>, <<"size", "30">> >>),
      PlainObject(<< <<"size", "30">>, <<"sound", "false">> >>),
      compressToEncodedURIComponent(
          JSONstringify(<< <<"size", "30">>, <<"sound", "false">> >>)),
      EmptyString,
      Garbled }

\* The value held under the other storage key, which is not the instance's
Foreign == PlainObject(<< <<"color", "blue">> >>)

\* Arguments the callers pass to setAll and set
ArgSet == { << <<"sound", "false">> >>,
            << <<"color", "red">>, <<"size", "30">> >> }

\* Where the instance is constructed: the background page or another page
\* of the extension (an options page), of a development or a packed install
Contexts ==
    { [isBackground |-> TRUE, installType |-> "development"],
      [isBackground |-> TRUE, installType |-> "normal"],
      [isBackground |-> FALSE, installType |-> "development"],
      [isBackground |-> FALSE, installType |-> "normal"] }

\* The migrations handed to the constructor: lists of the functions named
\* "noop" (() => {}), "rename", "asyncRename" (rename after awaited work),
\* "derive", "removeUnused", "reinsert", "throws" and "rejects"
MigrationLists ==
    { <<>>,
      <<"noop">>,
      <<"rename">>,
      <<"removeUnused">>,
      <<"reinsert">>,
      <<"asyncRename", "derive">>,
      <<"rename", "throws">>,
      <<"rejects", "rename">> }

\* The lists handed to the constructor in a page that is not the background
\* page: none, one that would change the options, one that would fail
PageMigrationLists ==
    { <<>>,
      <<"rename">>,
      <<"rejects", "rename">> }

\* savedOptions => { if (savedOptions.size !== undefined) {
\*     savedOptions.minSize = savedOptions.size; delete savedOptions.size } }
Rename(o) == IF Has(o, "size")
             THEN Delete(Put(o, "minSize", Get(o, "size")), "size")
             ELSE o

\* a migration that reads what its predecessor wrote:
\* savedOptions => { if ('minSize' in savedOptions) savedOptions.sound = false }
Derive(o) == IF Has(o, "minSize") THEN Put(o, "sound", "false") ELSE o

\* savedOptions => { const v = savedOptions.size; delete savedOptions.size;
\*                   savedOptions.size = v }   (same content, new key order)
Reinsert(o) == IF Has(o, "size")
               THEN Put(Delete(o, "size"), "size", Get(o, "size"))
               ELSE o

\* removeUnused with the test the other way round: it deletes the keys the
\* defaults do have
removeUnusedInverted(options, defaults) ==
    SelectSeq(options, LAMBDA p : ~Has(defaults, p[1]))

\* OptionsSync.migrations.removeUnused
removeUnused(options, defaults) == SelectSeq(options, LAMBDA p : Has(defaults, p[1]))

\* The part of migration m that runs inside the call migrate(options, defaults)
MigrateCall(m, o, d) ==
    CASE m = "rename"       -> [threw |-> FALSE, options |-> Rename(o)]
      [] m = "derive"       -> [threw |-> FALSE, options |-> Derive(o)]
      [] m = "removeUnused" -> [threw |-> FALSE, options |-> removeUnused(o, d)]
      [] m = "reinsert"     -> [threw |-> FALSE, options |-> Reinsert(o)]
      [] m = "throws"       -> [threw |-> TRUE, options |-> o]
      [] OTHER              -> [threw |-> FALSE, options |-> o]

\* The part of migration m that runs when the promise it returned settles
MigrateSettled(m, o, d) ==
    CASE m = "asyncRename" -> [threw |-> FALSE, options |-> Rename(o)]
      [] m = "rejects"     -> [threw |-> TRUE, options |-> o]
      [] OTHER             -> [threw |-> FALSE, options |-> o]

\* What migration m makes of o when it runs from its call to its completion
MigrateFully(m, o, d) == MigrateSettled(m, MigrateCall(m, o, d).options, d).options

-----------------------------------------------------------------------------
(* State                                                                   *)

VARIABLES
    defaults,       \* this.defaults
    storageName,    \* this.storageName
    migrations,     \* the migrations handed to the constructor
    isBackground,   \* webext-detect-page's isBackground() in this context
    installType,    \* chrome.management.getSelf().installType
    storage,        \* chrome.storage.sync: storage key -> stored value
    token,          \* this._migrations: "pending", "resolved" or "rejected"
    rejection,      \* the error this._migrations is rejected with, or "none"
    pc,             \* where _runMigrations is
    options,        \* _runMigrations' options object
    initial,        \* _runMigrations' snapshot JSON.stringify(options)
    mi,             \* index of the migration the for loop is at
    running,        \* migrations called whose promise has not settled yet
    observed,       \* the options each migration was called with
    listening,      \* a chrome.runtime.onInstalled listener is registered
    timer,          \* the 500 ms timer: "none", "armed" or "fired"
    installed,      \* the host has fired onInstalled in this process
    runnerGets,     \* storage.get calls made by _runMigrations
    runnerSets,     \* storage.set calls made by _runMigrations
    runnerRead,     \* what the storage answered to _runMigrations' get
    runnerWrote,    \* the value _runMigrations handed to storage.set
    call,           \* the getAll / setAll / set calls issued on the instance
    otherToken,     \* this._migrations of a second instance, on the other key
    form,           \* this._form
    listeners,      \* the listeners registered on the form, its buttons, the
                    \* storage's onChanged and onContextInvalidated
    sync,           \* where the syncForm call is
    fields,         \* the values of the form's fields
    debounce,       \* the timer of the debounced _handleFormInput: "none",
                    \* "armed" (the last input event came from a field with a
                    \* name) or "nameless" (from a field without one)
    changes,        \* storage.onChanged notifications not delivered yet
    editing         \* the document has the focus and the active element is
                    \* in the form

config == <<defaults, storageName, migrations, isBackground, installType>>
locals == <<options, initial, mi, running, observed, runnerGets, runnerSets,
            runnerRead, runnerWrote>>
runner == <<pc, locals>>
gate   == <<listening, timer, installed>>
page   == <<form, listeners, sync, fields, debounce, editing>>
vars   == <<config, storage, token, rejection, runner, gate, call, otherToken,
            page, changes>>

-----------------------------------------------------------------------------
(* Encoding                                                                *)

\* _encode without the loop that deletes the default values
_encodeKeepsDefaults(o) == compressToEncodedURIComponent(JSONstringify(o))

\* _encode that also drops the keys the defaults do not have
_encodeDropsUnknown(o) ==
    compressToEncodedURIComponent(JSONstringify(
        SelectSeq(o, LAMBDA p : Has(defaults, p[1]) /\ Get(defaults, p[1]) # p[2])))

\* OptionsSync._encode: drop the values equal to their default, compress
_encode(o) ==
    compressToEncodedURIComponent(JSONstringify(
        SelectSeq(o, LAMBDA p : Get(defaults, p[1]) # p[2])))

\* _decode with the spread the other way round: {...decompressed, ...defaults}
_decodeDefaultsWin(v) ==
    Spread(IF v.type = "string"
           THEN JSONparse(decompressFromEncodedURIComponent(v))
           ELSE v.bag,
           defaults)

\* _decode without the typeof test: the stored value is spread as it is, and
\* a string has no option among its properties
_decodeIgnoresStrings(v) ==
    Spread(defaults, IF v.type = "string" THEN <<>> ELSE v.bag)

\* OptionsSync._decode: decompress a string, spread over the defaults
_decode(v) ==
    Spread(defaults,
           IF v.type = "string"
           THEN JSONparse(decompressFromEncodedURIComponent(v))
           ELSE v.bag)

\* _decode throws: the stored string does not decompress to JSON text
_decodeThrows(v) ==
    v.type = "string" /\ JSONparseThrows(decompressFromEncodedURIComponent(v))

-----------------------------------------------------------------------------
(* Construction                                                            *)

\* The calls are numbered in the order they are issued
IsNextCall(c) == call[c].pc = "idle" /\ \A b \in Callers : b < c => call[b].pc # "idle"

\* A call that has not been issued yet.  by: who issues it (the instance's
\* user, or syncForm, importFromFile, exportToFile, _handleFormInput); cont:
\* the issuer has something left to do once the call has settled
NoCall == [pc |-> "idle", op |-> "none", arg |-> <<>>, newOptions |-> <<>>,
           read |-> Undefined, result |-> <<>>, gets |-> 0, sets |-> 0,
           wrote |-> Undefined, error |-> "none", by |-> "caller",
           cont |-> FALSE, file |-> Undefined]

\* _runMigrations without the isBackground() test
RunnerStartAnywhere(ms, bg) == IF Len(ms) = 0 THEN "skipped" ELSE "getSelf"

\* A _runMigrations that asks the gate even without migrations
RunnerStartNonEmpty(ms, bg) == IF ~bg THEN "skipped" ELSE "getSelf"

\* _runMigrations up to its first await: it returns at once when there are
\* no migrations or the context is not the background page
RunnerStart(ms, bg) == IF Len(ms) = 0 \/ ~bg THEN "skipped" ELSE "getSelf"

\* new OptionsSync({defaults, storageName, migrations}) in a context of the
\* host, over a storage area that already holds a value
Constructed(setups, contexts, lists, pageLists, stored) ==
    /\ \E setup \in setups :
          defaults = setup.defaults /\ storageName = setup.storageName
    /\ \E context \in contexts :
          isBackground = context.isBackground /\ installType = context.installType
    /\ migrations \in IF isBackground THEN lists ELSE pageLists
    /\ \E s \in stored :
          storage = [n \in StorageNames |-> IF n = storageName THEN s ELSE Foreign]
    /\ pc = RunnerStart(migrations, isBackground)
    /\ token = IF pc = "skipped" THEN "resolved" ELSE "pending"
    /\ rejection = "none"
    /\ options = <<>>
    /\ initial = JSONstringify(<<>>)
    /\ mi = 1
    /\ running = {}
    /\ observed = <<>>
    /\ listening = FALSE
    /\ timer = "none"
    /\ installed = FALSE
    /\ runnerGets = 0
    /\ runnerSets = 0
    /\ runnerRead = Undefined
    /\ runnerWrote = Undefined
    /\ call = [c \in Callers |-> NoCall]

\* No second instance has been constructed
NoOther == otherToken = "none"

\* syncForm has not been called, and the page has no form
NoForm ==
    /\ form = "none"
    /\ listeners = {}
    /\ sync = "idle"
    /\ fields = <<>>
    /\ debounce = "none"
    /\ editing = FALSE
    /\ changes = <<>>

\* One instance, in a page without a form
Init ==
    /\ Constructed(Setups, Contexts, MigrationLists, PageMigrationLists, StoredSet)
    /\ NoOther
    /\ NoForm

-----------------------------------------------------------------------------
(* shouldRunMigrations                                                     *)

\* A gate that races the event against the timer whatever the install type
GetSelfResolvesAlwaysRaces ==
    /\ pc = "getSelf"
    /\ pc' = "race"
    /\ listening' = TRUE
    /\ timer' = "armed"
    /\ UNCHANGED <<otherToken, page, changes, config, storage, token, rejection, locals, installed, call>>

\* chromeP.management.getSelf() resolves: a development install answers yes
\* (and _runMigrations goes on to read the storage), any other install type
\* registers the onInstalled listener and arms the timer
GetSelfResolves ==
    /\ pc = "getSelf"
    /\ IF installType = "development"
       THEN /\ pc' = "read"
            /\ UNCHANGED <<listening, timer>>
       ELSE /\ pc' = "race"
            /\ listening' = TRUE
            /\ timer' = "armed"
    /\ UNCHANGED <<otherToken, page, changes, config, storage, token, rejection, locals, installed, call>>

\* A listener that starts the run again after the timer has answered no
OnInstalledRestarts ==
    /\ ~installed
    /\ installed' = TRUE
    /\ pc' = IF listening /\ pc \in {"race", "skipped"} THEN "read" ELSE pc
    /\ UNCHANGED <<otherToken, page, changes, config, storage, token, rejection, locals, listening, timer, call>>

\* The host fires chrome.runtime.onInstalled (once per process at most): a
\* registered listener calls resolve(true), which answers the pending race
OnInstalled ==
    /\ ~installed
    /\ installed' = TRUE
    /\ pc' = IF listening /\ pc = "race" THEN "read" ELSE pc
    /\ UNCHANGED <<otherToken, page, changes, config, storage, token, rejection, locals, listening, timer, call>>

\* A timer whose expiry ends _runMigrations wherever it is
TimeoutCancels ==
    /\ timer = "armed"
    /\ timer' = "fired"
    /\ pc' = "skipped" /\ token' = "resolved"
    /\ UNCHANGED <<otherToken, page, changes, config, storage, rejection, locals, listening, installed, call>>

\* The 500 ms timer fires: resolve(false); when the race is still pending
\* _runMigrations returns without having touched the storage
Timeout ==
    /\ timer = "armed"
    /\ timer' = "fired"
    /\ IF pc = "race"
       THEN pc' = "skipped" /\ token' = "resolved"
       ELSE UNCHANGED <<pc, token>>
    /\ UNCHANGED <<otherToken, page, changes, config, storage, rejection, locals, listening, installed, call>>

-----------------------------------------------------------------------------
(* _runMigrations                                                          *)

\* chrome.storage.onChanged: a value stored under the instance's key is
\* announced to the listener syncForm registered
Notify(stored, written) ==
    changes' = IF stored /\ "onChanged" \in listeners
               THEN Append(changes, [areaName |-> "sync", key |-> storageName,
                                     newValue |-> written])
               ELSE changes

\* The error is caught and dropped: this._migrations resolves all the same
Swallows(error) ==
    /\ pc' = "failed"
    /\ token' = "resolved"
    /\ rejection' = error

\* The async function throws: this._migrations is rejected with the error
Rejects(error) ==
    /\ pc' = "failed"
    /\ token' = "rejected"
    /\ rejection' = error

\* After the loop, without the save
AfterMigrationsNeverSaves(o) ==
    /\ pc' = "done"
    /\ token' = "resolved"
    /\ UNCHANGED <<runnerWrote, rejection>>

\* After the loop, saving whether or not anything changed
AfterMigrationsAlwaysSaves(o) ==
    /\ pc' = "write"
    /\ runnerWrote' = _encode(o)
    /\ UNCHANGED <<token, rejection>>

\* After the loop, saving when the encoded options are not the stored value
AfterMigrationsComparesStored(o) ==
    IF _encode(o) # runnerRead
    THEN /\ pc' = "write"
         /\ runnerWrote' = _encode(o)
         /\ UNCHANGED <<token, rejection>>
    ELSE /\ pc' = "done"
         /\ token' = "resolved"
         /\ UNCHANGED <<runnerWrote, rejection>>

\* After the loop, saving the options object as it is, not encoded
AfterMigrationsSavesPlain(o) ==
    IF initial # JSONstringify(o)
    THEN /\ pc' = "write"
         /\ runnerWrote' = PlainObject(o)
         /\ UNCHANGED <<token, rejection>>
    ELSE /\ pc' = "done"
         /\ token' = "resolved"
         /\ UNCHANGED <<runnerWrote, rejection>>

\* After the loop: only save to storage if there were any changes
AfterMigrations(o) ==
    IF initial # JSONstringify(o)
    THEN /\ pc' = "write"
         /\ runnerWrote' = _encode(o)
         /\ UNCHANGED <<token, rejection>>
    ELSE /\ pc' = "done"
         /\ token' = "resolved"
         /\ UNCHANGED <<runnerWrote, rejection>>

\* A runner that reads through getAll, which awaits this._migrations
RunnerGetAwaitsToken ==
    /\ pc = "read"
    /\ token # "pending"
    /\ runnerGets' = runnerGets + 1
    /\ runnerRead' = storage[storageName]
    /\ options' = _decode(runnerRead')
    /\ initial' = JSONstringify(options')
    /\ pc' = "migrate"
    /\ UNCHANGED <<otherToken, page, changes, config, storage, token, rejection,
                   mi, running, observed, runnerSets, runnerWrote, gate, call>>

\* const options = await this._getAll(): the storage answers the get and
\* _decode makes the options of the answer or throws, or the storage reports
\* an error; an error or a throw rejects this._migrations
RunnerGet ==
    /\ pc = "read"
    /\ runnerGets' = runnerGets + 1
    /\ \E ok \in BOOLEAN :
          IF ok /\ ~_decodeThrows(storage[storageName])
          THEN /\ runnerRead' = storage[storageName]
               /\ options' = _decode(runnerRead')
               /\ initial' = JSONstringify(options')
               /\ pc' = "migrate"
               /\ UNCHANGED <<token, rejection>>
          ELSE IF ok
          THEN /\ runnerRead' = storage[storageName]
               /\ Rejects("JSON.parse")
               /\ UNCHANGED <<options, initial>>
          ELSE /\ Rejects("storage.get")
               /\ UNCHANGED <<runnerRead, options, initial>>
    /\ UNCHANGED <<otherToken, page, changes, config, storage, mi, running, observed, runnerSets, runnerWrote,
                   gate, call>>

\* migrations.forEach(migrate => migrate(options, this.defaults)): the next
\* migration is called without awaiting what this one returned
MigrateStartForEach ==
    /\ pc = "migrate"
    /\ LET r == MigrateCall(migrations[mi], options, defaults) IN
          /\ observed' = Append(observed, [migrate |-> migrations[mi],
                                           options |-> options])
          /\ options' = r.options
          /\ running' = running \cup {mi}
          /\ IF r.threw
             THEN Rejects("migration") /\ UNCHANGED <<mi, runnerWrote>>
             ELSE IF mi < Len(migrations)
             THEN /\ mi' = mi + 1
                  /\ UNCHANGED <<pc, token, rejection, runnerWrote>>
             ELSE /\ mi' = mi + 1
                  /\ AfterMigrations(r.options)
    /\ UNCHANGED <<otherToken, page, changes, config, storage, initial, runnerGets, runnerSets, runnerRead,
                   gate, call>>

\* The call wrapped in a try/catch that drops what the migration throws
MigrateStartSwallows ==
    /\ pc = "migrate"
    /\ observed' = Append(observed, [migrate |-> migrations[mi],
                                     options |-> options])
    /\ options' = MigrateCall(migrations[mi], options, defaults).options
    /\ pc' = "settle"
    /\ running' = running \cup {mi}
    /\ UNCHANGED <<otherToken, page, changes, config, storage, token, rejection, initial, mi, runnerGets,
                   runnerSets, runnerRead, runnerWrote, gate, call>>

\* migrate(options, this.defaults): the call itself; a throw rejects
\* this._migrations, otherwise the loop awaits what the call returned
MigrateStart ==
    /\ pc = "migrate"
    /\ LET r == MigrateCall(migrations[mi], options, defaults) IN
          /\ observed' = Append(observed, [migrate |-> migrations[mi],
                                           options |-> options])
          /\ options' = r.options
          /\ IF r.threw
             THEN Rejects("migration") /\ running' = running
             ELSE /\ pc' = "settle"
                  /\ running' = running \cup {mi}
                  /\ UNCHANGED <<token, rejection>>
    /\ UNCHANGED <<otherToken, page, changes, config, storage, initial, mi, runnerGets, runnerSets, runnerRead,
                   runnerWrote, gate, call>>

\* await migrate(...): the migration's promise settles; a rejection rejects
\* this._migrations, otherwise the loop goes on to the next migration or,
\* after the last one, to the comparison with the snapshot
MigrateSettle ==
    /\ pc = "settle"
    /\ LET r == MigrateSettled(migrations[mi], options, defaults) IN
          /\ options' = r.options
          /\ running' = running \ {mi}
          /\ IF r.threw
             THEN /\ Rejects("migration")
                  /\ UNCHANGED <<mi, runnerWrote>>
             ELSE IF mi < Len(migrations)
             THEN /\ pc' = "migrate"
                  /\ mi' = mi + 1
                  /\ UNCHANGED <<token, rejection, runnerWrote>>
             ELSE /\ mi' = mi + 1
                  /\ AfterMigrations(r.options)
    /\ UNCHANGED <<otherToken, page, changes, config, storage, initial, observed, runnerGets, runnerSets,
                   runnerRead, gate, call>>

\* await this._setAll(options): the storage acknowledges the set, or reports
\* an error, which rejects this._migrations
RunnerSet ==
    /\ pc = "write"
    /\ runnerSets' = runnerSets + 1
    /\ \E ok \in BOOLEAN :
          /\ Notify(ok, runnerWrote)
          /\ IF ok
             THEN /\ storage' = [storage EXCEPT ![storageName] = runnerWrote]
                  /\ pc' = "done"
                  /\ token' = "resolved"
                  /\ UNCHANGED rejection
             ELSE /\ Rejects("storage.set")
                  /\ UNCHANGED storage
    /\ UNCHANGED <<otherToken, page, config, options, initial, mi, running, observed, runnerGets,
                   runnerRead, runnerWrote, gate, call>>

-----------------------------------------------------------------------------
(* getAll, setAll, set                                                     *)

runnerAndGate == <<config, token, rejection, runner, gate>>

\* set with the spread the other way round: {...newOptions, ...options}
SetMergeStoredWins(current, newOptions) == Spread(newOptions, current)

\* A set that leaves out what getAll returned
SetMergeOnlyNew(current, newOptions) == newOptions

\* set: {...await this.getAll(), ...newOptions}
SetMerge(current, newOptions) == Spread(current, newOptions)

\* getAll(): runs up to `await this._migrations`
GetAll(c) ==
    /\ IsNextCall(c)
    /\ call' = [call EXCEPT ![c].op = "getAll", ![c].pc = "getAll:await"]
    /\ UNCHANGED <<runnerAndGate, storage, otherToken, page, changes>>

\* setAll(newOptions): runs up to `await this._migrations`
SetAll(c, newOptions) ==
    /\ IsNextCall(c)
    /\ call' = [call EXCEPT ![c].op = "setAll", ![c].arg = newOptions,
                            ![c].newOptions = newOptions, ![c].pc = "setAll:await"]
    /\ UNCHANGED <<runnerAndGate, storage, otherToken, page, changes>>

\* set(newOptions): calls this.getAll() first, which runs up to its await
Set(c, newOptions) ==
    /\ IsNextCall(c)
    /\ call' = [call EXCEPT ![c].op = "set", ![c].arg = newOptions,
                            ![c].pc = "getAll:await"]
    /\ UNCHANGED <<runnerAndGate, storage, otherToken, page, changes>>

\* getAll without `await this._migrations`: straight on to this._getAll()
GetAllNotAwaited(c) ==
    /\ call[c].pc = "getAll:await"
    /\ call' = [call EXCEPT ![c].pc = "getAll:get"]
    /\ UNCHANGED <<runnerAndGate, storage, otherToken, page, changes>>

\* getAll awaiting a promise that all the instances share: the call waits
\* for every instance's _runMigrations and rejects when any of them failed
GetAllAwaitedShared(c) ==
    /\ call[c].pc = "getAll:await"
    /\ token # "pending"
    /\ otherToken # "pending"
    /\ call' = [call EXCEPT
           ![c].pc = IF token = "resolved" /\ otherToken # "rejected"
                     THEN "getAll:get" ELSE "rejected",
           ![c].error = IF token = "resolved" /\ otherToken # "rejected" THEN @
                        ELSE IF token = "rejected" THEN rejection
                        ELSE "other instance"]
    /\ UNCHANGED <<runnerAndGate, storage, otherToken, page, changes>>

\* getAll past `await this._migrations`: a rejected promise rejects the call,
\* a resolved one lets it go on to this._getAll(), which asks the storage
GetAllAwaited(c) ==
    /\ call[c].pc = "getAll:await"
    /\ token # "pending"
    /\ call' = [call EXCEPT
           ![c].pc = IF token = "resolved" THEN "getAll:get" ELSE "rejected",
           ![c].error = IF token = "resolved" THEN @ ELSE rejection]
    /\ UNCHANGED <<runnerAndGate, storage, otherToken, page, changes>>

\* _getAll that saves what it read back to the storage
StorageGetSaves(c) ==
    /\ call[c].pc = "getAll:get"
    /\ LET got == _decode(storage[storageName]) IN
          /\ call' = [call EXCEPT
                 ![c].gets = @ + 1,
                 ![c].read = storage[storageName],
                 ![c].result = got,
                 ![c].newOptions = IF call[c].op = "set"
                                   THEN SetMerge(got, call[c].arg) ELSE @,
                 ![c].pc = IF call[c].op = "set" THEN "setAll:await"
                           ELSE "resolved"]
          /\ storage' = [storage EXCEPT ![storageName] = _encode(got)]
    /\ UNCHANGED <<runnerAndGate, otherToken, page, changes>>

\* _getAll that remembers a failed storage.get: the instance's promise is
\* replaced by one rejected with the storage's error
StorageGetSticky(c) ==
    /\ call[c].pc = "getAll:get"
    /\ \E ok \in BOOLEAN :
          LET got == _decode(storage[storageName])
              threw == _decodeThrows(storage[storageName])
          IN
          /\ call' = [call EXCEPT
                 ![c].gets = @ + 1,
                 ![c].read = IF ok THEN storage[storageName] ELSE @,
                 ![c].result = IF ok /\ ~threw THEN got ELSE @,
                 ![c].newOptions = IF ok /\ ~threw /\ call[c].op = "set"
                                   THEN SetMerge(got, call[c].arg) ELSE @,
                 ![c].error = IF ~ok THEN "storage.get"
                              ELSE IF threw THEN "JSON.parse" ELSE @,
                 ![c].pc = IF ~ok \/ threw THEN "rejected"
                           ELSE IF call[c].op = "set" THEN "setAll:await"
                           ELSE "resolved"]
          /\ token' = IF ok THEN token ELSE "rejected"
          /\ rejection' = IF ok THEN rejection ELSE "storage.get"
    /\ UNCHANGED <<otherToken, page, changes, config, runner, gate, storage>>

\* _getAll: the storage answers the get (the call resolves with the decoded
\* value; set goes on to setAll({...options, ...newOptions}), which runs up to
\* its own await) or reports an error, which rejects the call, as does a
\* throw of _decode
StorageGet(c) ==
    /\ call[c].pc = "getAll:get"
    /\ \E ok \in BOOLEAN :
          LET got == _decode(storage[storageName])
              threw == _decodeThrows(storage[storageName])
          IN
          call' = [call EXCEPT
              ![c].gets = @ + 1,
              ![c].read = IF ok THEN storage[storageName] ELSE @,
              ![c].result = IF ok /\ ~threw THEN got ELSE @,
              ![c].newOptions = IF ok /\ ~threw /\ call[c].op = "set"
                                THEN SetMerge(got, call[c].arg) ELSE @,
              ![c].error = IF ~ok THEN "storage.get"
                           ELSE IF threw THEN "JSON.parse" ELSE @,
              ![c].pc = IF ~ok \/ threw THEN "rejected"
                        ELSE IF call[c].op = "set" THEN "setAll:await"
                        ELSE "resolved"]
    /\ UNCHANGED <<runnerAndGate, storage, otherToken, page, changes>>

\* setAll past `await this._migrations`: rejected, or on to this._setAll(),
\* which hands the encoded options to the storage
SetAllAwaited(c) ==
    /\ call[c].pc = "setAll:await"
    /\ token # "pending"
    /\ call' = [call EXCEPT
           ![c].pc = IF token = "resolved" THEN "setAll:set" ELSE "rejected",
           ![c].error = IF token = "resolved" THEN @ ELSE rejection]
    /\ UNCHANGED <<runnerAndGate, storage, otherToken, page, changes>>

\* An _encode that deletes the default values from the object it is given
_encodeArgumentThinned(o) == SelectSeq(o, LAMBDA p : Get(defaults, p[1]) # p[2])

\* What _encode(options) leaves of the object it is given: it deletes the
\* default values from thinnedOptions, the copy {...options}
_encodeArgument(o) == o

\* _setAll over a storage that merges the new value into the one it holds
StorageSetMerges(c) ==
    /\ call[c].pc = "setAll:set"
    /\ \E ok \in BOOLEAN :
          LET held == IF storage[storageName].type = "string"
                      THEN JSONparse(decompressFromEncodedURIComponent(
                               storage[storageName]))
                      ELSE storage[storageName].bag
              merged == compressToEncodedURIComponent(JSONstringify(
                            Spread(held, JSONparse(decompressFromEncodedURIComponent(
                                             _encode(call[c].newOptions))))))
          IN
          /\ storage' = IF ok
                        THEN [storage EXCEPT ![storageName] = merged]
                        ELSE storage
          /\ call' = [call EXCEPT
                 ![c].sets = @ + 1,
                 ![c].wrote = _encode(call[c].newOptions),
                 ![c].error = IF ok THEN @ ELSE "storage.set",
                 ![c].pc = IF ok THEN "resolved" ELSE "rejected"]
          /\ Notify(ok, _encode(call[c].newOptions))
    /\ UNCHANGED <<runnerAndGate, otherToken, page>>

\* _setAll with the key written out: storage.set({options: ...})
StorageSetDefaultKey(c) ==
    /\ call[c].pc = "setAll:set"
    /\ \E ok \in BOOLEAN :
          /\ storage' = IF ok
                        THEN [storage EXCEPT
                                 !["options"] = _encode(call[c].newOptions)]
                        ELSE storage
          /\ call' = [call EXCEPT
                 ![c].sets = @ + 1,
                 ![c].wrote = _encode(call[c].newOptions),
                 ![c].error = IF ok THEN @ ELSE "storage.set",
                 ![c].pc = IF ok THEN "resolved" ELSE "rejected"]
          /\ Notify(ok, _encode(call[c].newOptions))
    /\ UNCHANGED <<runnerAndGate, otherToken, page>>

\* _setAll: the storage stores the value under the instance's key and
\* acknowledges, or reports an error, which rejects the call; the object
\* setAll was given is the one _encode is given
StorageSet(c) ==
    /\ call[c].pc = "setAll:set"
    /\ \E ok \in BOOLEAN :
          /\ storage' = IF ok
                        THEN [storage EXCEPT
                                 ![storageName] = _encode(call[c].newOptions)]
                        ELSE storage
          /\ call' = [call EXCEPT
                 ![c].sets = @ + 1,
                 ![c].wrote = _encode(call[c].newOptions),
                 ![c].newOptions = _encodeArgument(@),
                 ![c].arg = IF call[c].op = "setAll"
                            THEN _encodeArgument(@) ELSE @,
                 ![c].error = IF ok THEN @ ELSE "storage.set",
                 ![c].pc = IF ok THEN "resolved" ELSE "rejected"]
          /\ Notify(ok, _encode(call[c].newOptions))
    /\ UNCHANGED <<runnerAndGate, otherToken, page>>

-----------------------------------------------------------------------------
(* Specification                                                           *)

Next ==
    \/ GetSelfResolves
    \/ OnInstalled
    \/ Timeout
    \/ RunnerGet
    \/ MigrateStart
    \/ MigrateSettle
    \/ RunnerSet
    \/ \E c \in Callers : GetAll(c)
    \/ \E c \in Callers : \E o \in ArgSet : SetAll(c, o)
    \/ \E c \in Callers : \E o \in ArgSet : Set(c, o)
    \/ \E c \in Callers : GetAllAwaited(c)
    \/ \E c \in Callers : StorageGet(c)
    \/ \E c \in Callers : SetAllAwaited(c)
    \/ \E c \in Callers : StorageSet(c)

Spec == Init /\ [][Next]_vars

-----------------------------------------------------------------------------
(* A second instance, constructed on the other storage key                 *)

\* The second instance's storageName
otherName == CHOOSE n \in StorageNames : n # storageName

\* The second instance's migration: savedOptions => { savedOptions.migrated = true }
OtherMigration(o) == Put(o, "migrated", "true")

\* The second instance's _runMigrations returns without a storage.set (it
\* skipped, or its migrations changed nothing): its promise resolves
OtherRunnerSkips ==
    /\ otherToken = "pending"
    /\ otherToken' = "resolved"
    /\ UNCHANGED <<config, storage, token, rejection, runner, gate, call, page,
                   changes>>

\* The second instance's _runMigrations saves what its migration made of the
\* value under its own key (it has no defaults to leave out), and its promise
\* resolves
OtherRunnerSaves ==
    /\ otherToken = "pending"
    /\ otherToken' = "resolved"
    /\ storage' = [storage EXCEPT ![otherName] =
                      compressToEncodedURIComponent(JSONstringify(
                          OtherMigration(
                              IF storage[otherName].type = "string"
                              THEN JSONparse(decompressFromEncodedURIComponent(
                                       storage[otherName]))
                              ELSE storage[otherName].bag)))]
    /\ UNCHANGED <<config, token, rejection, runner, gate, call, page, changes>>

\* The second instance's _runMigrations throws: its promise is rejected
OtherRunnerFails ==
    /\ otherToken = "pending"
    /\ otherToken' = "rejected"
    /\ UNCHANGED <<config, storage, token, rejection, runner, gate, call, page,
                   changes>>

\* What the first instance is constructed with when there are two
TwoStored == { Undefined, PlainObject(<< <<"size", "30">> >>) }

TwoLists == { <<"rename">>, <<"rename", "throws">> }

\* Two instances: the second one's _runMigrations is under way, or it had
\* nothing to do and its promise resolved at once
InitTwo ==
    /\ Constructed(Setups, Contexts, TwoLists, {<<"rename">>}, TwoStored)
    /\ otherToken \in {"pending", "resolved"}
    /\ NoForm

NextTwo ==
    \/ Next
    \/ OtherRunnerSkips
    \/ OtherRunnerSaves
    \/ OtherRunnerFails

SpecTwo == InitTwo /\ [][NextTwo]_vars

-----------------------------------------------------------------------------
(* syncForm, stopSyncForm and the handlers they register                   *)

\* The listeners syncForm registers before its await, and after it
EarlyListeners == {"input", "submit", "onChanged"}

LateListeners == {"export", "import", "invalidated"}

\* The form of the options page as its markup gives it: the required text
\* field color, the checkbox sound and the disabled field size
HtmlForm == << <<"color", "red">>, <<"sound", "true">>, <<"size", "10">> >>

\* The fields the markup disables
DisabledFields == {"size"}

\* What the user can put into the fields; the empty color leaves a required
\* field without a value
FieldValues ==
    [color |-> {"red", "blue", ""}, sound |-> {"true", "false"}]

\* field.validity.valid of the field p: a required field needs a value
Valid(p) == p[2] # ""

\* field.disabled of the field p
Disabled(p) == p[1] \in DisabledFields

\* A _parseForm that takes every field of the form
_parseFormAll(f) == f

\* _parseForm(form): the fields that are valid and not disabled
_parseForm(f) == SelectSeq(f, LAMBDA p : Valid(p) /\ ~Disabled(p))

\* _updateForm(form, options): the fields options has a different value for
\* are set to it (deserialize leaves the others, and has nothing to do for an
\* option without a field)
_updateForm(f, o) ==
    [i \in DOMAIN f |-> IF Has(o, f[i][1]) THEN <<f[i][1], Get(o, f[i][1])>>
                        ELSE f[i]]

\* syncForm(form) up to `await this.getAll()`, which runs up to its own await
SyncForm(c) ==
    /\ sync = "idle"
    /\ fields # <<>>
    /\ IsNextCall(c)
    /\ form' = "form"
    /\ listeners' = listeners \cup EarlyListeners
    /\ sync' = "getAll"
    /\ call' = [call EXCEPT ![c].op = "getAll", ![c].pc = "getAll:await",
                            ![c].by = "syncForm", ![c].cont = TRUE]
    /\ UNCHANGED <<editing, runnerAndGate, storage, otherToken, fields, debounce, changes>>

\* syncForm after its await: a rejected getAll rejects it; otherwise the form
\* (the one this._form was when the call started) is updated and the click
\* listeners are added to the buttons of this._form, which throws when
\* stopSyncForm has deleted this._form in the meantime
SyncFormResumes(c) ==
    /\ sync = "getAll"
    /\ call[c].by = "syncForm" /\ call[c].cont
    /\ call[c].pc \in {"resolved", "rejected"}
    /\ call' = [call EXCEPT ![c].cont = FALSE]
    /\ IF call[c].pc = "rejected"
       THEN /\ sync' = "threw"
            /\ UNCHANGED <<fields, listeners>>
       ELSE /\ fields' = _updateForm(fields, call[c].result)
            /\ IF form = "none"
               THEN sync' = "threw" /\ UNCHANGED listeners
               ELSE sync' = "done" /\ listeners' = listeners \cup LateListeners
    /\ UNCHANGED <<editing, runnerAndGate, storage, otherToken, form, debounce, changes>>

\* stopSyncForm(): with a form, the input, submit and onChanged listeners are
\* removed, addEventListener is called for the two click listeners, and
\* this._form is deleted
StopSyncForm ==
    /\ form # "none"
    /\ listeners' = (listeners \ EarlyListeners) \cup {"export", "import"}
    /\ form' = "none"
    /\ UNCHANGED <<editing, runnerAndGate, storage, otherToken, call, sync, fields,
                   debounce, changes>>

\* The user changes a field: the form dispatches an input event, and a
\* registered _handleFormInput (re)starts its 300 ms timer
UserInput(k, v) ==
    /\ Has(fields, k)
    /\ Get(fields, k) # v
    /\ fields' = Put(fields, k, v)
    /\ debounce' = IF "input" \in listeners THEN "armed" ELSE debounce
    /\ UNCHANGED <<editing, runnerAndGate, storage, otherToken, call, form, listeners,
                   sync, changes>>

\* The user changes a field of the form that has no name attribute: the form
\* dispatches an input event all the same, and debounce keeps the arguments
\* of the last call only
UserInputNameless ==
    /\ fields # <<>>
    /\ "input" \in listeners
    /\ debounce # "nameless"
    /\ debounce' = "nameless"
    /\ UNCHANGED <<editing, runnerAndGate, storage, otherToken, call, form, listeners,
                   sync, fields, changes>>

\* The timer fires with the event of a field without a name:
\* _handleFormInput returns at `if (!field.name)`
DebounceReturns ==
    /\ debounce = "nameless"
    /\ debounce' = "none"
    /\ UNCHANGED <<editing, runnerAndGate, storage, otherToken, call, form, listeners,
                   sync, fields, changes>>

\* The timer fires: _handleFormInput calls this.set(this._parseForm(form)),
\* whose getAll runs up to its await
DebounceFires(c) ==
    /\ debounce = "armed"
    /\ IsNextCall(c)
    /\ debounce' = "none"
    /\ call' = [call EXCEPT ![c].op = "set", ![c].arg = _parseForm(fields),
                            ![c].pc = "getAll:await", ![c].by = "input"]
    /\ UNCHANGED <<editing, runnerAndGate, storage, otherToken, form, listeners, sync,
                   fields, changes>>

\* A click on .js-export with exportToFile registered: it calls this.getAll()
ClickExport(c) ==
    /\ "export" \in listeners
    /\ IsNextCall(c)
    /\ call' = [call EXCEPT ![c].op = "getAll", ![c].pc = "getAll:await",
                            ![c].by = "export"]
    /\ UNCHANGED <<runnerAndGate, storage, otherToken, page, changes>>

\* The key exportToFile puts into the file and importFromFile looks for
_jsonIdentityHelper == "__webextOptionsSync"

\* The text exportToFile saves for the options o: the identity key with the
\* extension's name comes first
ExportedFile(o) ==
    JSONstringify(<< <<_jsonIdentityHelper, "extension">> >> \o o)

\* A file that is not JSON
NotJsonFile == [type |-> "string", fmt |-> "text", bag |-> <<>>]

\* The files the user may pick: one that is not JSON, a JSON object without
\* the identity key, and files as exportToFile writes them
ImportFiles ==
    { NotJsonFile, JSONstringify(<< <<"color", "blue">> >>) }
    \cup { ExportedFile(o) : o \in ArgSet }

\* importFromFile throws before it calls set: JSON.parse throws, or the
\* parsed object lacks the identity key
importThrows(text) ==
    \/ JSONparseThrows(text)
    \/ ~Has(JSONparse(text), _jsonIdentityHelper)

\* An import that leaves the identity key among the options
importOptionsKeepsIdentity(text) == JSONparse(text)

\* The options importFromFile hands to set: the parsed file after
\* `delete options[this._jsonIdentityHelper]`
importOptions(text) == Delete(JSONparse(text), _jsonIdentityHelper)

\* A click on .js-import with importFromFile registered, and the user picks
\* the file with this text: importFromFile throws, or calls this.set(options)
ClickImport(c, text) ==
    /\ "import" \in listeners
    /\ IsNextCall(c)
    /\ call' = IF importThrows(text)
               THEN [call EXCEPT ![c].op = "importFromFile", ![c].file = text,
                                 ![c].pc = "rejected", ![c].by = "import",
                                 ![c].error = "alertAndThrow"]
               ELSE [call EXCEPT ![c].op = "set", ![c].file = text,
                                 ![c].arg = importOptions(text),
                                 ![c].pc = "getAll:await", ![c].by = "import",
                                 ![c].cont = TRUE]
    /\ UNCHANGED <<runnerAndGate, storage, otherToken, page, changes>>

\* importFromFile after `await this.set(options)`: a form still synced is
\* updated with the imported options
ImportResumes(c) ==
    /\ call[c].by = "import" /\ call[c].cont
    /\ call[c].pc \in {"resolved", "rejected"}
    /\ call' = [call EXCEPT ![c].cont = FALSE]
    /\ fields' = IF call[c].pc = "resolved" /\ form # "none"
                 THEN _updateForm(fields, call[c].arg)
                 ELSE fields
    /\ UNCHANGED <<editing, runnerAndGate, storage, otherToken, form, listeners, sync,
                   debounce, changes>>

\* storageType, left at the constructor's default
storageType == "sync"

\* A handler that does not look at the area the change comes from
DeliverChangeAnyArea ==
    /\ changes # <<>>
    /\ changes' = Tail(changes)
    /\ LET n == Head(changes) IN
          fields' = IF /\ "onChanged" \in listeners
                       /\ n.key = storageName
                       /\ ~editing
                    THEN _updateForm(fields, _decode(n.newValue))
                    ELSE fields
    /\ UNCHANGED <<editing, runnerAndGate, storage, otherToken, call, form, listeners,
                   sync, debounce>>

\* chrome.storage.onChanged delivers a change: a _handleStorageChangeOnForm
\* still registered updates the form when the change is of the instance's
\* area and key, unless the user is editing the form
DeliverChange ==
    /\ changes # <<>>
    /\ changes' = Tail(changes)
    /\ LET n == Head(changes) IN
          fields' = IF /\ "onChanged" \in listeners
                       /\ n.areaName = storageType
                       /\ n.key = storageName
                       /\ ~editing
                    THEN _updateForm(fields, _decode(n.newValue))
                    ELSE fields
    /\ UNCHANGED <<editing, runnerAndGate, storage, otherToken, call, form, listeners,
                   sync, debounce>>

\* The user moves the focus into the form, or out of it
FocusChanges ==
    /\ fields # <<>>
    /\ editing' = ~editing
    /\ UNCHANGED <<runnerAndGate, storage, otherToken, call, form, listeners,
                   sync, fields, debounce, changes>>

\* How many notifications of other writers wait to be delivered at most
MaxChanges == 1

\* What another page of the extension stores under the instance's key
PageValue == compressToEncodedURIComponent(JSONstringify(<< <<"color", "blue">> >>))

\* Another writer changes the storage and chrome.storage.onChanged announces
\* it: a value under the instance's key in the instance's area, a value
\* under the same key in the area "local", or a value under another key
ForeignChange(area, key) ==
    /\ "onChanged" \in listeners
    /\ Len(changes) < MaxChanges
    /\ area = storageType => storage[key] # PageValue
    /\ changes' = Append(changes, [areaName |-> area, key |-> key,
                                   newValue |-> PageValue])
    /\ storage' = IF area = storageType
                  THEN [storage EXCEPT ![key] = PageValue]
                  ELSE storage
    /\ UNCHANGED <<runnerAndGate, otherToken, call, page>>

\* What the instance of an options page finds in the storage
FormStored == { Undefined,
                PlainObject(<< <<"size", "30">>, <<"sound", "false">> >>) }

\* The instance of an options page that has the form
InitForm ==
    /\ Constructed({s \in Setups : s.storageName = "settings"},
                   {c \in Contexts : ~c.isBackground /\ c.installType = "normal"},
                   {}, {<<"rename">>}, FormStored)
    /\ NoOther
    /\ form = "none"
    /\ listeners = {}
    /\ sync = "idle"
    /\ fields = HtmlForm
    /\ debounce = "none"
    /\ editing = FALSE
    /\ changes = <<>>

NextForm ==
    \/ \E c \in Callers : GetAll(c)
    \/ \E c \in Callers : \E o \in ArgSet : SetAll(c, o)
    \/ \E c \in Callers : \E o \in ArgSet : Set(c, o)
    \/ \E c \in Callers : GetAllAwaited(c)
    \/ \E c \in Callers : StorageGet(c)
    \/ \E c \in Callers : SetAllAwaited(c)
    \/ \E c \in Callers : StorageSet(c)
    \/ \E c \in Callers : SyncForm(c)
    \/ \E c \in Callers : SyncFormResumes(c)
    \/ StopSyncForm
    \/ \E k \in DOMAIN FieldValues : \E v \in FieldValues[k] : UserInput(k, v)
    \/ \E c \in Callers : DebounceFires(c)
    \/ UserInputNameless
    \/ DebounceReturns
    \/ \E c \in Callers : ClickExport(c)
    \/ \E c \in Callers : \E text \in ImportFiles : ClickImport(c, text)
    \/ \E c \in Callers : ImportResumes(c)
    \/ DeliverChange

SpecForm == InitForm /\ [][NextForm]_vars

-----------------------------------------------------------------------------
(* The instance over a host that answers                                   *)

\* What the instances of the fair runs are constructed with
FairLists == { <<>>, <<"rename">>, <<"asyncRename", "derive">>,
               <<"rename", "throws">>, <<"rejects", "rename">> }

FairStored == { Undefined, PlainObject(<< <<"size", "30">> >>), Garbled }

InitFair ==
    /\ Constructed({s \in Setups : s.storageName = "settings"}, Contexts,
                   FairLists, {<<"rename">>}, FairStored)
    /\ NoOther
    /\ NoForm

\* The host answers getSelf and every storage.get and storage.set (with a
\* value or an error), the timer fires, a migration returns or throws and the
\* promise it returned settles, and the event loop resumes a call whose
\* awaited promise has settled. Nothing makes the host fire onInstalled, or
\* the user issue a call.
Fairness ==
    /\ WF_vars(GetSelfResolves \/ RunnerGet \/ MigrateStart \/ MigrateSettle
                   \/ RunnerSet)
    /\ WF_vars(Timeout)
    /\ \A c \in Callers :
          WF_vars(GetAllAwaited(c) \/ StorageGet(c) \/ SetAllAwaited(c)
                     \/ StorageSet(c))

SpecFair == InitFair /\ [][Next]_vars /\ Fairness

-----------------------------------------------------------------------------
(* A second instance on the same key, in an options page                   *)

\* setAll(o) on an instance another page of the extension constructed with
\* the same defaults and storageName: that instance's _runMigrations
\* returned at once (it is not the background page), so its setAll goes
\* straight to _setAll, and the storage stores the value
PageSetAll(o) ==
    /\ storage[storageName] # _encode(o)
    /\ storage' = [storage EXCEPT ![storageName] = _encode(o)]
    /\ UNCHANGED <<runnerAndGate, call, otherToken, page, changes>>

SharedLists == { <<"rename">>, <<"asyncRename", "derive">>, <<"rename", "throws">> }

SharedStored == { Undefined, PlainObject(<< <<"size", "30">> >>) }

\* The background page's instance, with migrations to run
InitShared ==
    /\ Constructed({s \in Setups : s.storageName = "settings"},
                   {c \in Contexts : c.isBackground},
                   SharedLists, {}, SharedStored)
    /\ NoOther
    /\ NoForm

NextShared ==
    \/ Next
    \/ \E o \in ArgSet : PageSetAll(o)

SpecShared == InitShared /\ [][NextShared]_vars

-----------------------------------------------------------------------------
(* The synced form and the other writers of the storage                    *)

NextChange ==
    \/ \E c \in Callers : \E o \in ArgSet : SetAll(c, o)
    \/ \E c \in Callers : GetAllAwaited(c)
    \/ \E c \in Callers : StorageGet(c)
    \/ \E c \in Callers : SetAllAwaited(c)
    \/ \E c \in Callers : StorageSet(c)
    \/ \E c \in Callers : SyncForm(c)
    \/ \E c \in Callers : SyncFormResumes(c)
    \/ StopSyncForm
    \/ \E k \in DOMAIN FieldValues : \E v \in FieldValues[k] : UserInput(k, v)
    \/ \E c \in Callers : DebounceFires(c)
    \/ DeliverChange
    \/ FocusChanges
    \/ \E area \in {"sync", "local"} : \E key \in StorageNames :
          ForeignChange(area, key)

SpecChange == InitForm /\ [][NextChange]_vars

-----------------------------------------------------------------------------
(* Process lifetimes                                                       *)

\* The process ends once the runner has finished and no call is in flight,
\* and a later process constructs the instance again, with the same
\* arguments, over what the storage holds by then
Restart ==
    /\ pc \in {"done", "skipped", "failed"}
    /\ \A c \in Callers : call[c].pc \in {"idle", "resolved", "rejected"}
    /\ pc # RunnerStart(migrations, isBackground) \/ call # [c \in Callers |-> NoCall]
    /\ pc' = RunnerStart(migrations, isBackground)
    /\ token' = IF pc' = "skipped" THEN "resolved" ELSE "pending"
    /\ rejection' = "none"
    /\ options' = <<>>
    /\ initial' = JSONstringify(<<>>)
    /\ mi' = 1
    /\ running' = {}
    /\ observed' = <<>>
    /\ listening' = FALSE
    /\ timer' = "none"
    /\ installed' = FALSE
    /\ runnerGets' = 0
    /\ runnerSets' = 0
    /\ runnerRead' = Undefined
    /\ runnerWrote' = Undefined
    /\ call' = [c \in Callers |-> NoCall]
    /\ UNCHANGED <<config, storage, otherToken, page, changes>>

RestartLists == { <<"rename">>, <<"reinsert">>, <<"removeUnused">>,
                 <<"asyncRename", "derive">> }

RestartStored == { Undefined,
                  PlainObject(<< <<"size", "30">>, <<"sound", "false">> >>),
                  PlainObject(<< <<"color", "red">>, <<"size", "30">> >>) }

InitRestart ==
    /\ Constructed(Setups, {c \in Contexts : c.isBackground},
                   RestartLists, {}, RestartStored)
    /\ NoOther
    /\ NoForm

NextRestart ==
    \/ Next
    \/ Restart

SpecRestart == InitRestart /\ [][NextRestart]_vars

-----------------------------------------------------------------------------
(* The caller and the object getAll gave it                                *)

\* A _decode that merges the stored options into this.defaults and returns it
_decodeReturnsDefaults == FALSE

\* _decode returns {...this.defaults, ...decompressed}: an object of its own,
\* not this.defaults and not an object returned before
_decodeFresh == TRUE

\* The caller of a resolved getAll assigns to a key of the object it got
MutateResult(c) ==
    /\ call[c].op = "getAll" /\ call[c].by = "caller"
    /\ call[c].pc = "resolved"
    /\ ~Has(call[c].result, "color") \/ Get(call[c].result, "color") # "green"
    /\ call' = [call EXCEPT ![c].result = Put(@, "color", "green")]
    /\ defaults' = IF _decodeFresh THEN defaults
                   ELSE Put(defaults, "color", "green")
    /\ UNCHANGED <<storageName, migrations, isBackground, installType, token,
                   rejection, runner, gate, storage, otherToken, page, changes>>

MutateStored == { Undefined, PlainObject(<< <<"size", "30">> >>) }

InitMutate ==
    /\ Constructed({s \in Setups : s.storageName = "settings"},
                   {c \in Contexts : c.isBackground},
                   {<<"rename">>}, {}, MutateStored)
    /\ NoOther
    /\ NoForm

NextMutate ==
    \/ Next
    \/ \E c \in Callers : MutateResult(c)

SpecMutate == InitMutate /\ [][NextMutate]_vars

-----------------------------------------------------------------------------
(* Callers that write back what they read                                  *)

\* The instance and what it finds stored, for the callers that write back
InitBack ==
    /\ Constructed(Setups, Contexts, {<<"rename">>}, {<<>>}, StoredSet)
    /\ NoOther
    /\ NoForm

\* The callers also call set({}) and setAll(await getAll())
NextBack ==
    \/ Next
    \/ \E c \in Callers : Set(c, <<>>)
    \/ \E c, d \in Callers :
          /\ call[d].op = "getAll" /\ call[d].pc = "resolved"
          /\ SetAll(c, call[d].result)

SpecBack == InitBack /\ [][NextBack]_vars

-----------------------------------------------------------------------------
(* Properties                                                              *)

\* The options object a stored value stands for
StoredOptions(v) == IF v.type = "string"
                    THEN JSONparse(decompressFromEncodedURIComponent(v))
                    ELSE v.bag

\* _runMigrations has returned (it skipped, or its write was acknowledged)
RunnerFinished == pc \in {"skipped", "done"}

\* Call c has asked the storage for something, or is about to hear from it
TouchesStorage(c) ==
    \/ call[c].pc \in {"getAll:get", "setAll:set"}
    \/ call[c].gets > 0
    \/ call[c].sets > 0

\* C1: a getAll, setAll or set call reaches the storage only after the
\* instance's _runMigrations has finished (skipped, or its conditional write
\* acknowledged), so never between the runner's read and the runner's write.
C1_Gating ==
    \A c \in Callers :
        TouchesStorage(c) => RunnerFinished /\ token = "resolved"

\* A call read from the storage exactly what the runner's write had stored
C1_Witness ==
    \E c \in Callers :
        /\ call[c].gets = 1
        /\ runnerSets = 1
        /\ pc = "done"
        /\ call[c].read = runnerWrote

\* C2: getAll resolves to an object that has every key of the defaults,
\* takes the stored value for every stored key, and keeps the keys that are
\* only stored.
C2_GetAllMerge ==
    \A c \in Callers :
        call[c].op = "getAll" /\ call[c].pc = "resolved" =>
            LET S == StoredOptions(call[c].read)
                R == call[c].result
            IN  /\ Keys(defaults) \subseteq Keys(R)
                /\ \A k \in Keys(S) : Has(R, k) /\ Get(R, k) = Get(S, k)

\* getAll resolved over a stored value that overrides one default, leaves
\* another alone and holds a key the defaults do not have
C2_Witness ==
    \E c \in Callers :
        /\ call[c].op = "getAll" /\ call[c].pc = "resolved"
        /\ Get(defaults, "sound") = "true" /\ Get(defaults, "color") = "red"
        /\ Get(StoredOptions(call[c].read), "sound") = "false"
        /\ Has(StoredOptions(call[c].read), "size")
        /\ ~Has(StoredOptions(call[c].read), "color")

\* C3: a getAll call makes no storage.set and leaves the stored value as it
\* is, and over an empty storage key it resolves to exactly the defaults.
C3_GetAllReadOnly ==
    [][\A c \in Callers :
          call'[c] # call[c] /\ call'[c].op = "getAll" =>
              /\ storage' = storage
              /\ call'[c].sets = 0
              /\ (call'[c].pc = "resolved" /\ call'[c].read.type = "undefined"
                     => call'[c].result = defaults)]_vars

\* getAll resolved to the (non-empty) defaults over an empty storage key
C3_Witness ==
    \E c \in Callers :
        /\ call[c].op = "getAll" /\ call[c].pc = "resolved"
        /\ call[c].read.type = "undefined"
        /\ defaults # <<>>
        /\ call[c].result = defaults
        /\ storage[storageName] = Undefined

\* C4: setAll(E), once past this._migrations, makes exactly one storage.set
\* (acknowledged or failed), and the object it hands over has exactly the keys
\* of E whose value differs from the default, with E's values (keys the
\* defaults do not have are kept).
C4_SetAllThins ==
    \A c \in Callers :
        call[c].op = "setAll" =>
            /\ call[c].sets <= 1
            /\ call[c].gets = 0
            /\ call[c].pc = "resolved" => call[c].sets = 1
            /\ call[c].sets = 1 =>
                  LET E == call[c].arg
                      W == StoredOptions(call[c].wrote)
                  IN  /\ call[c].wrote.type = "string"
                      /\ Keys(W) = {k \in Keys(E) : Get(E, k) # Get(defaults, k)}
                      /\ \A k \in Keys(W) : Get(W, k) = Get(E, k)

\* setAll resolved having dropped a default-valued key and kept a key the
\* defaults do not have
C4_Witness ==
    \E c \in Callers :
        /\ call[c].op = "setAll" /\ call[c].pc = "resolved"
        /\ Get(call[c].arg, "color") = Get(defaults, "color")
        /\ Has(call[c].arg, "size") /\ ~Has(defaults, "size")
        /\ Keys(StoredOptions(call[c].wrote)) = {"size"}

\* The value of key k in: defaults overlaid with S, overlaid with P
Overlay(S, P, k) == IF Has(P, k) THEN Get(P, k)
                    ELSE IF Has(S, k) THEN Get(S, k)
                    ELSE Get(defaults, k)

\* No other call has written to the storage
RunsAlone(c) == \A b \in Callers \ {c} : call[b].sets = 0

\* C5: a set(P) call that runs alone reads once and makes exactly one
\* storage.set, of the thinned form of (defaults overlaid with the stored S,
\* overlaid with P); every stored key P does not mention keeps its value.
C5_SetReadModifyWrite ==
    \A c \in Callers :
        call[c].op = "set" /\ call[c].pc = "resolved" /\ RunsAlone(c) =>
            LET S == StoredOptions(call[c].read)
                P == call[c].arg
                W == StoredOptions(call[c].wrote)
                all == Keys(defaults) \cup Keys(S) \cup Keys(P)
            IN  /\ call[c].gets = 1
                /\ call[c].sets = 1
                /\ storage[storageName] = call[c].wrote
                /\ Keys(W) = {k \in all : Overlay(S, P, k) # Get(defaults, k)}
                /\ \A k \in Keys(W) : Get(W, k) = Overlay(S, P, k)
                /\ \A k \in Keys(S) \ Keys(P) :
                      Get(_decode(storage[storageName]), k) = Get(S, k)

\* set({sound: false}) resolved over a stored {size: 30}: both are stored
C5_Witness ==
    \E c \in Callers :
        /\ call[c].op = "set" /\ call[c].pc = "resolved" /\ RunsAlone(c)
        /\ Has(StoredOptions(call[c].read), "size")
        /\ ~Has(call[c].arg, "size")
        /\ Get(StoredOptions(storage[storageName]), "size") = "30"
        /\ Get(StoredOptions(storage[storageName]), "sound") = "false"

\* What the migrations ms make of o, run one after the other to completion
RECURSIVE ApplyAll(_, _)
ApplyAll(ms, o) == IF ms = <<>> THEN o
                   ELSE ApplyAll(Tail(ms), MigrateFully(Head(ms), o, defaults))

\* Two options objects hold the same keys with the same values
SameOptions(a, b) == Keys(a) = Keys(b) /\ \A k \in Keys(a) : Get(a, k) = Get(b, k)

\* The object _runMigrations read, as the migrations receive it
Working == _decode(runnerRead)

\* C6 as claimed: when the runner ran and the migrations change the stored
\* options, then once this._migrations has resolved the runner has made
\* exactly one storage.set, of the options the migrations make of what was
\* stored.
C6_Claimed ==
    LET S == StoredOptions(runnerRead) IN
    pc = "done" /\ runnerGets = 1 /\ ~SameOptions(ApplyAll(migrations, S), S) =>
        /\ runnerSets = 1
        /\ SameOptions(StoredOptions(runnerWrote), ApplyAll(migrations, S))

\* C6: when the runner ran and the migrations change the serialized working
\* object (the stored options spread over the defaults), then once
\* this._migrations has resolved the runner has made exactly one storage.set,
\* and what it stored is the thinned form of the object the migrations make
\* of the working object: the keys whose value differs from the default.
C6_PersistedOnce ==
    LET M == ApplyAll(migrations, Working)
        W == StoredOptions(runnerWrote)
    IN  /\ runnerSets <= 1
        /\ pc = "done" /\ runnerGets = 1 /\ M # Working =>
              /\ runnerSets = 1
              /\ (\A c \in Callers : call[c].sets = 0) =>
                     storage[storageName] = runnerWrote
              /\ runnerWrote.type = "string"
              /\ Keys(W) = {k \in Keys(M) : Get(M, k) # Get(defaults, k)}
              /\ \A k \in Keys(W) : Get(W, k) = Get(M, k)

\* Stored {size: 30}, no defaults, the rename migration: one set of
\* {minSize: 30}
C6_Witness ==
    /\ pc = "done"
    /\ runnerSets = 1
    /\ migrations = <<"rename">>
    /\ runnerRead = PlainObject(<< <<"size", "30">> >>)
    /\ StoredOptions(storage[storageName]) = << <<"minSize", "30">> >>

\* C7 as claimed: migrations that leave the options unchanged (the same keys
\* with the same values) make the runner store nothing.
C7_Claimed ==
    runnerGets = 1 /\ rejection # "storage.get"
        /\ SameOptions(ApplyAll(migrations, Working), Working) =>
            runnerSets = 0 /\ pc # "write"

\* C7: migrations that leave the serialized form of the working object
\* unchanged (the same keys in the same order with the same values) make the
\* runner store nothing before this._migrations resolves.
C7_NoOpNoWrite ==
    runnerGets = 1 /\ rejection # "storage.get"
        /\ ApplyAll(migrations, Working) = Working =>
            runnerSets = 0 /\ pc # "write"

\* The runner ran a migration over stored options it did not change, and
\* finished without a storage.set
C7_Witness ==
    /\ pc = "done"
    /\ token = "resolved"
    /\ runnerGets = 1
    /\ Len(observed) = Len(migrations)
    /\ runnerRead # Undefined
    /\ runnerSets = 0
    /\ storage[storageName] = runnerRead

\* Migration i has thrown, or the promise it returned has rejected
HasFailed(i) ==
    /\ i <= Len(observed)
    /\ LET m == migrations[i]
           r == MigrateCall(m, observed[i].options, defaults)
       IN  \/ r.threw
           \/ i \notin running /\ MigrateSettled(m, r.options, defaults).threw

\* C8: the runner calls the migrations in the declared order on one working
\* object, calls migration i+1 only when migration i has completed, its
\* asynchronous work included, so that no two run at the same time and each
\* receives the object as its predecessor left it.
C8_MigrationOrder ==
    /\ Cardinality(running) <= 1
    /\ Len(observed) <= Len(migrations)
    /\ \A i \in DOMAIN observed :
          /\ observed[i].migrate = migrations[i]
          /\ i = 1 => observed[i].options = Working
          /\ i > 1 =>
                /\ (i - 1) \notin running
                /\ observed[i].options =
                       MigrateFully(migrations[i - 1], observed[i - 1].options,
                                    defaults)

\* The second migration was called with what the first one's asynchronous
\* work had made of the options, and acted on it
C8_Witness ==
    /\ Len(observed) = 2
    /\ migrations[1] = "asyncRename"
    /\ observed[2].options # observed[1].options
    /\ Has(observed[2].options, "minSize")
    /\ pc = "done"
    /\ Get(StoredOptions(storage[storageName]), "sound") = "false"

\* C9: once migration i has thrown or rejected, no later migration is
\* called, the runner makes no storage.set and the storage stays as it was.
C9_FailureAborts ==
    /\ \A i \in 1..Len(migrations) :
          HasFailed(i) =>
              /\ Len(observed) = i
              /\ pc = "failed"
              /\ runnerSets = 0
              /\ runnerGets = 1
              /\ storage[storageName] = runnerRead
              /\ \A c \in Callers : call[c].sets = 0

\* The rename migration changed the options, the next migration threw, and
\* the storage still holds what the runner had read
C9_Witness ==
    /\ HasFailed(2)
    /\ migrations = <<"rename", "throws">>
    /\ observed[2].options # observed[1].options
    /\ Has(options, "minSize")
    /\ storage[storageName] = PlainObject(<< <<"size", "30">> >>)
    /\ token = "rejected"

\* A step of _runMigrations
RunnerStep ==
    GetSelfResolves \/ RunnerGet \/ MigrateStart \/ MigrateSettle \/ RunnerSet

\* C10: when the runner has failed (a migration threw or rejected, or the
\* runner's own storage.get, decoding or storage.set failed) this._migrations is
\* rejected; every getAll, setAll and set call, pending or issued later, can
\* only reject, with that same error and without a storage.get or
\* storage.set; and the runner takes no further step.
C10_FailureRejects ==
    pc = "failed" =>
        /\ token = "rejected"
        /\ rejection \in {"migration", "storage.get", "JSON.parse", "storage.set"}
        /\ ~ENABLED RunnerStep
        /\ \A c \in Callers :
              /\ call[c].gets = 0
              /\ call[c].sets = 0
              /\ call[c].pc \in {"idle", "getAll:await", "setAll:await", "rejected"}
              /\ call[c].pc = "rejected" => call[c].error = rejection
              /\ call[c].pc = "getAll:await" => ENABLED GetAllAwaited(c)
              /\ call[c].pc = "setAll:await" => ENABLED SetAllAwaited(c)

\* A set call issued before the runner's storage.set failed and a setAll
\* call issued after it have both rejected with the runner's error
C10_Witness ==
    /\ pc = "failed"
    /\ rejection = "storage.set"
    /\ \E c, d \in Callers :
          /\ call[c].op = "set" /\ call[d].op = "setAll"
          /\ call[c].pc = "rejected" /\ call[d].pc = "rejected"
          /\ call[c].error = "storage.set" /\ call[d].error = "storage.set"

-----------------------------------------------------------------------------

\* C11: removeUnused(O, D) leaves O with exactly the keys of O that are also
\* keys of D, each with the value O had for it; it leaves D as it was; a
\* second application changes nothing; and the runner, over the stored
\* {size: 30, sound: false} with the defaults {color: 'red', sound: true},
\* makes one storage.set, of {sound: false}.
C11_RemoveUnused ==
    /\ [storageName |-> storageName, defaults |-> defaults] \in Setups
    /\ \A i \in DOMAIN observed :
          observed[i].migrate = "removeUnused" /\ Len(observed) = i =>
              LET O == observed[i].options
                  R == options
              IN  /\ Keys(R) = Keys(O) \cap Keys(defaults)
                  /\ \A k \in Keys(R) : Get(R, k) = Get(O, k)
                  /\ removeUnused(R, defaults) = R
    /\ ( /\ migrations = <<"removeUnused">>
         /\ pc = "done"
         /\ runnerRead = PlainObject(<< <<"size", "30">>, <<"sound", "false">> >>)
         /\ defaults = << <<"color", "red">>, <<"sound", "true">> >> )
       => /\ runnerSets = 1
          /\ StoredOptions(runnerWrote) = << <<"sound", "false">> >>

\* removeUnused dropped the stored size, kept the stored sound, and the
\* runner's one storage.set left {sound: false} in the storage
C11_Witness ==
    /\ migrations = <<"removeUnused">>
    /\ pc = "done"
    /\ Has(observed[1].options, "size")
    /\ Get(observed[1].options, "sound") = "false"
    /\ Get(defaults, "sound") = "true"
    /\ runnerSets = 1
    /\ StoredOptions(storage[storageName]) = << <<"sound", "false">> >>

\* C12: a getAll that reads what a setAll(E) stored resolves to the defaults
\* overlaid with E: it has the keys of both, and for every key of E, the
\* ones _encode left out as equal to their default included, the value E
\* gave.
C12_RoundTrip ==
    \A c, d \in Callers :
        ( /\ call[c].op = "setAll" /\ call[c].pc = "resolved"
          /\ call[d].op = "getAll" /\ call[d].pc = "resolved"
          /\ call[d].read = call[c].wrote ) =>
            LET E == call[c].arg
                R == call[d].result
            IN  /\ Keys(R) = Keys(defaults) \cup Keys(E)
                /\ \A k \in Keys(E) : Get(R, k) = Get(E, k)
                /\ \A k \in Keys(defaults) \ Keys(E) : Get(R, k) = Get(defaults, k)

\* setAll({color: 'red', size: 30}) left the default-valued color out of what
\* it stored, and the getAll after it resolved with both color and size
C12_Witness ==
    \E c, d \in Callers :
        /\ c < d
        /\ call[c].op = "setAll" /\ call[c].pc = "resolved"
        /\ call[d].op = "getAll" /\ call[d].pc = "resolved"
        /\ call[d].read = call[c].wrote
        /\ Has(call[c].arg, "color")
        /\ ~Has(StoredOptions(call[c].wrote), "color")
        /\ Get(call[d].result, "color") = "red"
        /\ Get(call[d].result, "size") = "30"

\* C13: when a setAll(E) call completes, the value stored under the
\* instance's key is exactly the thinned E (the keys of E whose value differs
\* from the default, with E's values), so a key that was stored before and
\* is not in E is stored no longer.
C13_SetAllReplaces ==
    [][\A c \in Callers :
          ( /\ call[c].op = "setAll"
            /\ call[c].pc = "setAll:set"
            /\ call'[c].pc = "resolved" ) =>
              LET E == call[c].arg
                  before == StoredOptions(storage[storageName])
                  W == StoredOptions(storage'[storageName])
              IN  /\ storage'[storageName].type = "string"
                  /\ Keys(W) = {k \in Keys(E) : Get(E, k) # Get(defaults, k)}
                  /\ \A k \in Keys(W) : Get(W, k) = Get(E, k)
                  /\ \A k \in Keys(before) \ Keys(E) : ~Has(W, k)]_vars

\* A getAll saw size in the storage; the setAll({sound: false}) after it left
\* a stored value without size
C13_Witness ==
    \E c, d \in Callers :
        /\ call[d].op = "getAll" /\ call[d].pc = "resolved"
        /\ Has(StoredOptions(call[d].read), "size")
        /\ call[c].op = "setAll" /\ call[c].pc = "resolved"
        /\ ~Has(call[c].arg, "size")
        /\ storage[storageName] = call[c].wrote
        /\ StoredOptions(storage[storageName]) = << <<"sound", "false">> >>

\* The stored value is an object, or a string compressToEncodedURIComponent
\* produced, or nothing
Decodable(v) == v.fmt \in {"none", "lz"}

\* C14: getAll resolves to the same object whether the storage holds the
\* options B as a plain object (the legacy form) or as the compressed string
\* of B: what it resolved to over either form is what _decode makes of the
\* other.
C14_LegacyAndEncoded ==
    \A c \in Callers :
        ( /\ call[c].op = "getAll" /\ call[c].pc = "resolved"
          /\ Decodable(call[c].read) ) =>
            LET B == StoredOptions(call[c].read) IN
                /\ call[c].result = _decode(PlainObject(B))
                /\ call[c].result =
                       _decode(compressToEncodedURIComponent(JSONstringify(B)))

\* getAll resolved over the compressed string of {size: 30, sound: false},
\* which the storage may as well hold as a plain object
C14_Witness ==
    \E c \in Callers :
        /\ call[c].op = "getAll" /\ call[c].pc = "resolved"
        /\ call[c].read.type = "string" /\ call[c].read.fmt = "lz"
        /\ PlainObject(StoredOptions(call[c].read)) \in StoredSet
        /\ storage[storageName] = call[c].read
        /\ Get(call[c].result, "sound") = "false"
        /\ Get(defaults, "sound") = "true"
        /\ Get(call[c].result, "size") = "30"

\* C15 as claimed: a getAll that the storage answers with a string that
\* cannot be decoded into an options object rejects; it does not resolve.
C15_Claimed ==
    \A c \in Callers :
        ( /\ call[c].op = "getAll"
          /\ call[c].gets = 1
          /\ call[c].read.type = "string"
          /\ ~Decodable(call[c].read) ) =>
            call[c].pc = "rejected"

\* The storage reported an error to call c's own storage.get or storage.set
BackendFailed(c) ==
    /\ call[c].error \in {"storage.get", "storage.set"}
    /\ call[c].gets + call[c].sets > 0

\* Nothing stands in the way of call d: it can be issued, it gets past
\* this._migrations to the storage, and when the storage answers without an
\* error (with a value _decode takes) it goes on or resolves
CanSucceed(d) ==
    /\ IsNextCall(d) => ENABLED GetAll(d)
    /\ call[d].pc = "getAll:await" =>
          ENABLED (GetAllAwaited(d) /\ call'[d].pc = "getAll:get")
    /\ call[d].pc = "getAll:get" /\ ~_decodeThrows(storage[storageName]) =>
          ENABLED (StorageGet(d) /\ call'[d].error = "none")
    /\ call[d].pc = "setAll:await" =>
          ENABLED (SetAllAwaited(d) /\ call'[d].pc = "setAll:set")
    /\ call[d].pc = "setAll:set" =>
          ENABLED (StorageSet(d) /\ call'[d].pc = "resolved")

\* C16: a call whose storage.get or storage.set the storage answers with an
\* error rejects with that error, without asking the storage again; the
\* instance's promise stays resolved, and every other call, pending or issued
\* later, still gets to the storage and succeeds when the storage answers
\* without an error.
C16_BackendFailure ==
    \A c \in Callers :
        /\ call[c].gets <= 1
        /\ call[c].sets <= 1
        /\ BackendFailed(c) =>
              /\ call[c].pc = "rejected"
              /\ call[c].error = "storage.get" => call[c].sets = 0
              /\ token = "resolved"
              /\ rejection = "none"
              /\ \A d \in Callers \ {c} : CanSucceed(d)

\* The first call's storage.get failed; the getAll issued after it resolved
C16_Witness ==
    /\ call[1].op = "getAll" /\ call[1].pc = "rejected"
    /\ call[1].error = "storage.get" /\ call[1].gets = 1
    /\ pc = "done"
    /\ call[2].op = "getAll" /\ call[2].pc = "resolved"
    /\ call[2].read = storage[storageName]

\* C17: in a page that is not the background page _runMigrations returns at
\* once: this._migrations is resolved from the construction on, whatever the
\* install type and whether or not onInstalled fires, without a listener or
\* a timer; no migration is ever called and the runner makes no storage.get
\* and no storage.set.
C17_BackgroundOnly ==
    ~isBackground =>
        /\ pc = "skipped"
        /\ token = "resolved"
        /\ observed = <<>>
        /\ running = {}
        /\ runnerGets = 0
        /\ runnerSets = 0
        /\ ~listening
        /\ timer = "none"

\* In an options page of a development install, constructed with the rename
\* migration, onInstalled has fired and a getAll has resolved with the stored
\* size, which is still what the storage holds
C17_Witness ==
    /\ ~isBackground
    /\ installType = "development"
    /\ migrations = <<"rename">>
    /\ installed
    /\ storage[storageName] = PlainObject(<< <<"size", "30">> >>)
    /\ \E c \in Callers :
          /\ call[c].op = "getAll" /\ call[c].pc = "resolved"
          /\ Has(call[c].result, "size")

\* C18: the storage calls of the instance (of its getAll, setAll and set
\* calls and of its _runMigrations) address the instance's storageName, one
\* of the keys the constructor can be given ('options' when it is given
\* none): the value under any other key is never what a call or the runner
\* read, and it stays what it was.
C18_BucketFrame ==
    /\ storageName \in StorageNames
    /\ defaults = <<>> => storageName = "options"
    /\ \A n \in StorageNames \ {storageName} : storage[n] = Foreign
    /\ runnerRead # Foreign
    /\ \A c \in Callers : call[c].read # Foreign /\ call[c].wrote # Foreign

\* The runner and a set call after it have both read and written the value
\* under 'settings'; the value under 'options' is as it was
C18_Witness ==
    /\ storageName = "settings"
    /\ pc = "done" /\ runnerGets = 1 /\ runnerSets = 1
    /\ \E c \in Callers :
          /\ call[c].op = "set" /\ call[c].pc = "resolved"
          /\ call[c].read = runnerWrote
          /\ storage["settings"] = call[c].wrote
          /\ call[c].wrote # runnerWrote
    /\ storage["options"] = Foreign

\* The options the second instance's key holds
OtherOptions == StoredOptions(storage[otherName])

\* C19: with a second instance on the other storage key, a call on this
\* instance waits for this instance's promise only: whatever the state of
\* the other one's (pending, resolved or rejected), the call gets to the
\* storage as soon as this instance's promise has resolved, and it rejects
\* only with this instance's own error or with the error of its own storage
\* call.  This instance's migrations work on the value of its own key and the
\* other instance's on the value of the other key.
C19_Independent ==
    /\ \A c \in Callers :
          /\ call[c].pc = "getAll:await" /\ token = "resolved" =>
                ENABLED (GetAllAwaited(c) /\ call'[c].pc = "getAll:get")
          /\ call[c].pc = "setAll:await" /\ token = "resolved" =>
                ENABLED (SetAllAwaited(c) /\ call'[c].pc = "setAll:set")
          /\ call[c].pc = "rejected" =>
                \/ token = "rejected" /\ call[c].error = rejection
                \/ BackendFailed(c)
          /\ TouchesStorage(c) => token = "resolved"
    /\ runnerRead \in TwoStored
    /\ \A i \in DOMAIN observed : ~Has(observed[i].options, "migrated")
    /\ ~Has(StoredOptions(storage[storageName]), "migrated")
    /\ \/ storage[otherName] = Foreign
       \/ /\ otherToken = "resolved"
          /\ OtherOptions = OtherMigration(Foreign.bag)

\* This instance's runner has renamed and saved, and a set call after it has
\* resolved, while the other instance's _runMigrations is still under way
C19_Witness ==
    /\ otherToken = "pending"
    /\ pc = "done" /\ runnerSets = 1
    /\ \E c \in Callers :
          /\ call[c].op = "set" /\ call[c].pc = "resolved"
          /\ Has(StoredOptions(call[c].read), "minSize")
    /\ storage[otherName] = Foreign

\* The listeners the claim names: the ones on the form, on the storage's
\* onChanged and on the export and import buttons
NamedListeners == {"input", "submit", "onChanged", "export", "import"}

\* C20 as claimed: once syncForm has completed and stopSyncForm has run,
\* none of the listeners syncForm registered on the form, on the storage's
\* onChanged and on the export and import buttons is registered any more, so
\* that no click can start an export or an import.
C20_Claimed ==
    sync = "done" /\ form = "none" =>
        /\ listeners \cap NamedListeners = {}
        /\ \A c \in Callers :
              /\ ~ENABLED ClickExport(c)
              /\ ~ENABLED (\E text \in ImportFiles : ClickImport(c, text))

\* C21: the set a form input triggers is given the fields that are valid and
\* enabled at that moment and no other, and the value it hands to the storage
\* has every option of an invalid or disabled field as the call read it
C21_InvalidNotSaved ==
    [][\A c \in Callers :
          /\ (call[c].pc = "idle" /\ call'[c].pc # "idle" /\ call'[c].by = "input")
                => /\ \A i \in DOMAIN fields :
                        Has(call'[c].arg, fields[i][1])
                            <=> (Valid(fields[i]) /\ ~Disabled(fields[i]))
                   /\ \A k \in Keys(call'[c].arg) :
                        Has(fields, k) /\ Get(call'[c].arg, k) = Get(fields, k)
          /\ (call[c].by = "input" /\ call[c].sets = 0 /\ call'[c].sets = 1)
                => \A k \in Keys(HtmlForm) \ Keys(call[c].arg) :
                      /\ Has(_decode(call'[c].wrote), k)
                            = Has(call[c].result, k)
                      /\ Has(call[c].result, k)
                            => Get(_decode(call'[c].wrote), k)
                                  = Get(call[c].result, k)]_vars

C21_Witness ==
    \E c \in Callers :
        /\ call[c].by = "input" /\ call[c].pc = "resolved"
        /\ Get(fields, "color") = ""
        /\ ~Has(call[c].arg, "color") /\ ~Has(call[c].arg, "size")
        /\ Get(call[c].arg, "sound") = "true"
        /\ storage[storageName] = call[c].wrote
        /\ Get(_decode(storage[storageName]), "size") = "30"
        /\ Get(_decode(storage[storageName]), "color") = "red"

C23_Claimed ==
    Len(observed) >= 1 => observed[1].options = StoredOptions(runnerRead)

\* C24: in a background page of a non-development install with migrations,
\* once the host has fired onInstalled before the timer has fired (be it while
\* getSelf was still pending), the gate never answers no
C24_Claimed ==
    [][(/\ isBackground /\ installType # "development" /\ migrations # <<>>
        /\ installed /\ timer # "fired")
          => pc' # "skipped"]_vars

\* The gate of a non-development install has answered yes / no
AnsweredYes == pc \notin {"getSelf", "race", "skipped"}

AnsweredNo == pc = "skipped"

C26_Development ==
    /\ [](isBackground /\ installType = "development" /\ migrations # <<>> =>
            /\ ~listening /\ timer = "none"
            /\ pc \notin {"race", "skipped"}
            /\ pc = "getSelf" => ENABLED GetSelfResolves
            /\ pc = "read" => ENABLED RunnerGet
            /\ pc = "migrate" => ENABLED MigrateStart)
    /\ [][isBackground /\ installType = "development" /\ migrations # <<>>
            /\ pc = "getSelf" /\ pc' # "getSelf"
              => pc' = "read" /\ installed' = installed]_vars

C26_Witness ==
    /\ isBackground /\ installType = "development" /\ migrations # <<>>
    /\ ~installed /\ ~listening /\ timer = "none"
    /\ pc = "done"
    /\ Len(observed) = Len(migrations)

\* C27: with an empty migration list the runner is finished from the start:
\* getSelf is never asked, no onInstalled listener is registered, no timer is
\* armed, the runner never reads or writes the storage, and this._migrations
\* is resolved. Whenever the runner is skipped (the gate answered no
\* included) it has made no storage.get and no storage.set, has called no
\* migration, and the storage changes only by the storage.set of a call.
C27_EmptyListSkips ==
    /\ [](migrations = <<>> =>
            /\ pc = "skipped" /\ token = "resolved"
            /\ ~listening /\ timer = "none")
    /\ [](pc = "skipped" =>
            /\ token = "resolved"
            /\ runnerGets = 0 /\ runnerSets = 0 /\ observed = <<>>
            /\ runnerRead = Undefined /\ runnerWrote = Undefined)
    /\ [][pc = "skipped" =>
            /\ pc' = "skipped"
            /\ storage' # storage =>
                  \E c \in Callers : call[c].pc = "setAll:set"
                                      /\ call'[c].sets = call[c].sets + 1]_vars

C27_Witness ==
    /\ migrations = <<>> /\ isBackground /\ installed
    /\ pc = "skipped"
    /\ \E c \in Callers : call[c].pc = "resolved" /\ call[c].sets = 1

\* How far _runMigrations has come: asked the gate, racing, reading, in the
\* loop, writing, returned or thrown
Rank(p) == CASE p = "getSelf" -> 1
             [] p = "race" -> 2
             [] p = "read" -> 3
             [] p \in {"migrate", "settle"} -> 4
             [] p = "write" -> 5
             [] OTHER -> 6

\* C28: whatever the events and the calls, _runMigrations only moves forward
\* (gate, race, then skipped, or read, loop, write, then finished) and stays
\* where it finished; the loop only moves on in the list, migration i is
\* called at most once and with no other migration pending; the runner makes
\* at most one storage.get and one storage.set; and this._migrations, once
\* resolved or rejected, never changes again.
C28_OnceOnly ==
    /\ [](/\ runnerGets <= 1 /\ runnerSets <= 1
           /\ Len(observed) <= Len(migrations)
           /\ \A i \in DOMAIN observed : observed[i].migrate = migrations[i]
           /\ Cardinality(running) <= 1
           /\ (pc = "write" => runnerSets = 0)
           /\ (token # "pending" <=> Rank(pc) = 6))
    /\ [][ /\ Rank(pc') >= Rank(pc)
           /\ Rank(pc) = 6 => pc' = pc /\ UNCHANGED locals
           /\ (Rank(pc) = 4 /\ Rank(pc') = 4) =>
                 \/ mi' = mi /\ pc' = pc
                 \/ mi' = mi /\ pc = "migrate" /\ pc' = "settle"
                 \/ mi' = mi + 1 /\ pc = "settle" /\ pc' = "migrate"
           /\ (pc' = "skipped" /\ pc # "skipped") => pc = "race"
           /\ Len(observed') >= Len(observed)
           /\ \A i \in DOMAIN observed : observed'[i] = observed[i]
           /\ Len(observed') > Len(observed) =>
                 Len(observed') = mi /\ running = {}
           /\ token # "pending" => token' = token /\ rejection' = rejection]_vars

C28_Witness ==
    /\ pc = "done" /\ token = "resolved"
    /\ runnerGets = 1 /\ runnerSets = 1
    /\ Len(observed) = 2
    /\ installed /\ timer = "fired"
    /\ \E c \in Callers : call[c].pc = "resolved" /\ call[c].sets = 1

\* C29: over a host that answers, this._migrations is eventually resolved or
\* rejected, and every getAll, setAll and set call issued is eventually
\* resolved or rejected
C29_Settles ==
    /\ <>(token # "pending")
    /\ \A c \in Callers :
          [](call[c].pc # "idle" => <>(call[c].pc \in {"resolved", "rejected"}))

C29_Witness ==
    /\ pc = "failed" /\ token = "rejected" /\ rejection = "migration"
    /\ ~installed
    /\ \A c \in Callers : call[c].pc = "rejected" /\ call[c].error = "migration"

\* C30: when two set calls whose arguments share no key have both resolved,
\* whatever the order of their reads and writes, the stored options hold the
\* values of both arguments
C30_Claimed ==
    \A c, d \in Callers :
        ( /\ c # d
          /\ call[c].op = "set" /\ call[d].op = "set"
          /\ call[c].pc = "resolved" /\ call[d].pc = "resolved"
          /\ Keys(call[c].arg) \cap Keys(call[d].arg) = {} ) =>
            \A k \in Keys(call[c].arg) :
                Get(_decode(storage[storageName]), k) = Get(call[c].arg, k)

\* C31: when the runner's storage.set lands, the value under the key is still
\* the one the runner read: no write of an instance in another page has
\* landed in between, so none is overwritten
C31_Claimed ==
    [][(pc = "write" /\ pc' = "done") => storage[storageName] = runnerRead]_vars

\* The keys of an options object with their values, whatever their order
Pairs(o) == {o[i] : i \in DOMAIN o}

\* C32 as claimed: whenever the runner has written, the options it wrote
\* differ, as a set of keys with values, from the options that were stored
C32_Claimed ==
    runnerSets = 1 =>
        Pairs(StoredOptions(runnerWrote)) # Pairs(StoredOptions(runnerRead))

\* C32: in every process lifetime the runner goes to its storage.set only
\* with options whose JSON text differs from the text of the options it read
\* (keys in insertion order), and what it writes is their encoding; when the
\* migrations leave that text as it is, as on the value an earlier run
\* stored, the runner finishes without a storage.set
C32_NoSpuriousWrite ==
    [][ /\ (pc # "write" /\ pc' = "write") =>
              /\ JSONstringify(options') # initial'
              /\ initial' = JSONstringify(_decode(runnerRead'))
              /\ runnerWrote' = _encode(options')
        /\ ( /\ pc \in {"migrate", "settle"} /\ pc' \in {"write", "done"}
             /\ JSONstringify(ApplyAll(migrations, _decode(runnerRead)))
                   = JSONstringify(_decode(runnerRead)) ) =>
              pc' = "done" /\ runnerSets' = 0 ]_vars

C32_Witness ==
    /\ migrations = <<"rename">>
    /\ pc = "done" /\ runnerGets = 1 /\ runnerSets = 0
    /\ runnerRead.type = "string"
    /\ Has(StoredOptions(runnerRead), "minSize")
    /\ storage[storageName] = runnerRead

\* The stored value v holds no key with the value the defaults give it
Thin(v) ==
    \A k \in Keys(StoredOptions(v)) :
        ~(Has(defaults, k) /\ Get(defaults, k) = Get(StoredOptions(v), k))

\* C33: nothing stored is thin, every value setAll, set or the runner stores
\* under the instance's key is thin, and no step makes a thin stored value
\* one that is not: from an empty bucket on, the stored value is always thin
C33_StaysThin ==
    /\ [](storage[storageName] = Undefined => Thin(storage[storageName]))
    /\ [][ /\ storage'[storageName] # storage[storageName] =>
                  Thin(storage'[storageName])
           /\ Thin(storage[storageName]) => Thin(storage'[storageName]) ]_vars

C33_Witness ==
    /\ runnerSets = 1
    /\ \E c \in Callers :
          /\ call[c].op = "set" /\ call[c].pc = "resolved"
          /\ Has(defaults, "color")
          /\ Get(call[c].arg, "color") = Get(defaults, "color")
          /\ storage[storageName] = call[c].wrote
          /\ Has(StoredOptions(storage[storageName]), "size")
          /\ ~Has(StoredOptions(storage[storageName]), "color")

\* The options object o holds the value the caller assigned
Mutated(o) == Has(o, "color") /\ Get(o, "color") = "green"

Lands(c) == call[c].pc = "setAll:set" /\ call'[c].pc = "resolved"

\* C35: when the write of set({}) lands on the value the call read, and when
\* the write of setAll(o) lands on a value that decodes to o, getAll gives
\* afterwards what it gave before; and a setAll(E) that lands on what an
\* earlier setAll(E) stored leaves the stored value as it is
C35_WriteBack ==
    [][\A c \in Callers : Lands(c) =>
          /\ ( /\ call[c].op = "set" /\ call[c].arg = <<>>
               /\ storage[storageName] = call[c].read ) =>
                 _decode(storage'[storageName]) = _decode(storage[storageName])
          /\ ( /\ call[c].op = "setAll"
               /\ ~_decodeThrows(storage[storageName])
               /\ call[c].arg = _decode(storage[storageName]) ) =>
                 _decode(storage'[storageName]) = _decode(storage[storageName])
          /\ ( /\ call[c].op = "setAll"
               /\ \E d \in Callers \ {c} :
                     /\ call[d].op = "setAll" /\ call[d].pc = "resolved"
                     /\ call[d].arg = call[c].arg
                     /\ storage[storageName] = call[d].wrote ) =>
                 storage'[storageName] = storage[storageName] ]_vars

C35_Witness ==
    \E c \in Callers :
        /\ call[c].op = "set" /\ call[c].arg = <<>> /\ call[c].pc = "resolved"
        /\ call[c].read.type = "object"
        /\ Has(StoredOptions(call[c].read), "color")
        /\ storage[storageName] = call[c].wrote
        /\ ~Has(StoredOptions(call[c].wrote), "color")
        /\ _decode(call[c].wrote) = _decode(call[c].read)

\* C36: a save armed by the input event of a named field stays armed,
\* whatever input events follow, until the timer fires and a set call is
\* issued: the burst ends in one set call
C36_Claimed ==
    [][debounce = "armed" =>
          \/ debounce' = "armed"
          \/ \E c \in Callers : /\ call[c].pc = "idle"
                                  /\ call'[c].op = "set" /\ call'[c].by = "input"
                                  /\ call'[c].arg = _parseForm(fields)]_vars

\* C37: a storage-change notification delivered while the handler is
\* registered changes the form only if it is of the instance's area and key
\* and the user is not editing the form, and then the form is updated with
\* the decoded new value; in every other case the form stays as it is; and
\* the delivery changes nothing in the storage, issues no call and arms no
\* save
C37_SafeUpdates ==
    [][(changes # <<>> /\ changes' = Tail(changes)) =>
          LET n == Head(changes)
              safe == /\ n.areaName = "sync" /\ n.key = storageName /\ ~editing
                      /\ "onChanged" \in listeners
          IN  /\ safe => fields' = _updateForm(fields, _decode(n.newValue))
              /\ ~safe => fields' = fields
              /\ storage' = storage /\ call' = call /\ debounce' = debounce
              /\ token' = token ]_vars

C37_Witness ==
    /\ sync = "done" /\ form # "none" /\ ~editing
    /\ changes = <<>> /\ debounce = "none"
    /\ \A c \in Callers : call[c].sets = 0 /\ call[c].by # "input"
    /\ storage[storageName] = PageValue
    /\ Get(fields, "color") = "blue"

\* importFromFile has handed its options to the storage in this step
ImportWrites(c) ==
    call[c].by = "import" /\ call[c].pc = "setAll:set" /\ call'[c].sets = call[c].sets + 1

\* C38: an import of a file that is not JSON, or that has no identity key,
\* is rejected in the step that picks the file, leaves the storage as it is
\* and never reads or writes it; an import of a valid file calls set with the
\* file's options without the identity key, the identity key is in no stored
\* value and in no value handed to the storage, and the value the import
\* hands to the storage gives every option that the import read and the file
\* does not hold the value that was read
C38_ImportValidates ==
    /\ [](/\ \A n \in StorageNames :
                ~Has(StoredOptions(storage[n]), _jsonIdentityHelper)
          /\ \A c \in Callers :
                /\ ~Has(StoredOptions(call[c].wrote), _jsonIdentityHelper)
                /\ call[c].by = "import" =>
                      IF \/ JSONparseThrows(call[c].file)
                         \/ ~Has(JSONparse(call[c].file), _jsonIdentityHelper)
                      THEN /\ call[c].op = "importFromFile"
                           /\ call[c].pc = "rejected"
                           /\ call[c].gets = 0 /\ call[c].sets = 0
                           /\ call[c].wrote = Undefined
                      ELSE /\ call[c].op = "set"
                           /\ call[c].arg =
                                 Delete(JSONparse(call[c].file), _jsonIdentityHelper))
    /\ [][\A c \in Callers :
            /\ (call[c].pc = "idle" /\ call'[c].by = "import") => storage' = storage
            /\ ImportWrites(c) =>
                  \A k \in Keys(call[c].result) \ Keys(call[c].arg) :
                      Get(_decode(call'[c].wrote), k) = Get(call[c].result, k)]_vars

C38_Witness ==
    \E d \in Callers :
        /\ call[d].by = "import" /\ call[d].pc = "resolved" /\ ~call[d].cont
        /\ call[d].read # Undefined
        /\ Keys(call[d].result) \ Keys(call[d].arg) # {}
        /\ storage[storageName] = call[d].wrote
        /\ StoredOptions(storage[storageName]) # <<>>

====
